---------------------------- MODULE Spec2Model ----------------------------
(***************************************************************************)
(* Model of http/codegen/client_types.go: ClientTypeFiles and clientType,  *)
(* which plan the ordered section list of the HTTP client types file of    *)
(* every service, and of the templates that render view conversions.       *)
(***************************************************************************)
EXTENDS Integers, Sequences, FiniteSets, TLC

VARIABLES root, i, fw, seen, pc, fields, resolved

vars == <<root, i, fw, seen, pc, fields, resolved>>

-----------------------------------------------------------------------------
(* Go values *)

\* A nil pointer, and a pointer to x.
Nil == <<>>
Ptr(x) == <<x>>
Deref(p) == p[1]

\* The empty Go string.
Empty == ""

RECURSIVE Concat(_)
Concat(ss) == IF ss = <<>> THEN <<>> ELSE Head(ss) \o Concat(Tail(ss))

\* [ f(s[k]) : k \in 1..Len(s) ] as a sequence
Map(F(_), s) == [k \in 1..Len(s) |-> F(s[k])]

-----------------------------------------------------------------------------
(* Sections *)

SectionTemplate(name, source, data) == [Name |-> name, Source |-> source, Data |-> data]

\* codegen.Header(title, pkg, imports)
Header(svc) ==
    SectionTemplate("source-header", "headerT",
                    [Title |-> svc.Name, Pkg |-> "client",
                     PkgName |-> svc.rdata.Service.PkgName])

\* rdata.Endpoint(name): the endpoint data of that name, nil when there is none
Endpoint(rdata, name) ==
    IF \E k \in 1..Len(rdata.Endpoints) : rdata.Endpoints[k].Name = name
    THEN Ptr(rdata.Endpoints[CHOOSE k \in 1..Len(rdata.Endpoints) :
                 /\ rdata.Endpoints[k].Name = name
                 /\ \A l \in 1..(k-1) : rdata.Endpoints[l].Name # name])
    ELSE Nil

\* The endpoint data the loops over svc.HTTPEndpoints visit, in order
Visited(svc) == Map(LAMBDA a : Deref(Endpoint(svc.rdata, a)), svc.HTTPEndpoints)

\* A nil adata is dereferenced by the first loop
Panics(svc) == \E k \in 1..Len(svc.HTTPEndpoints) :
                  Endpoint(svc.rdata, svc.HTTPEndpoints[k]) = Nil

TypeDeclSection(name, data) ==
    IF data.Def # Empty THEN <<SectionTemplate(name, "typeDeclT", data)>> ELSE <<>>

\* InitOf with the constructor nested under the declaration
InitOf_Declared(data) ==
    IF data.Def # Empty /\ data.Init # Nil THEN <<Deref(data.Init)>> ELSE <<>>

InitOf(data) == IF data.Init # Nil THEN <<Deref(data.Init)>> ELSE <<>>

Validated(data) == IF data.ValidateDef # Empty THEN <<data>> ELSE <<>>

\* request body types
RequestBodies(svc) ==
    Concat(Map(LAMBDA adata :
                 IF adata.Payload.Request.ClientBody # Nil
                 THEN <<Deref(adata.Payload.Request.ClientBody)>> ELSE <<>>,
               Visited(svc)))

\* response body types
ResponseBodies(svc) ==
    Concat(Map(LAMBDA adata :
                 Concat(Map(LAMBDA resp :
                              IF resp.ClientBody # Nil
                              THEN <<Deref(resp.ClientBody)>> ELSE <<>>,
                            adata.Result.Responses)),
               Visited(svc)))

\* error body types
ErrorBodies(svc) ==
    Concat(Map(LAMBDA adata :
                 Concat(Map(LAMBDA herr :
                              IF herr.Response.ClientBody # Nil
                              THEN <<Deref(herr.Response.ClientBody)>> ELSE <<>>,
                            adata.Errors)),
               Visited(svc)))

RequestBodySections(svc) ==
    Concat(Map(LAMBDA data : TypeDeclSection("client-request-body", data),
               RequestBodies(svc)))

ResponseBodySections(svc) ==
    Concat(Map(LAMBDA data : TypeDeclSection("client-response-body", data),
               ResponseBodies(svc)))

ErrorBodySections(svc) ==
    Concat(Map(LAMBDA data : TypeDeclSection("client-error-body", data),
               ErrorBodies(svc)))

\* body attribute types
BodyAttributeSections(svc) ==
    Concat(Map(LAMBDA data : TypeDeclSection("client-body-attributes", data),
               svc.rdata.ClientBodyAttributeTypes))

\* expanded types
ExpandedTypeSections(svc) ==
    Map(LAMBDA t : SectionTemplate("expanded-type", "typeDeclT", t),
        svc.rdata.ExpandedTypes)

\* initData with every body loop appending to it
initData_AllBodies(svc) ==
    Concat(Map(InitOf, RequestBodies(svc) \o ResponseBodies(svc) \o ErrorBodies(svc)))

\* initData: only the request body loop appends to it
initData(svc) == Concat(Map(InitOf, RequestBodies(svc)))

\* validatedTypes with the error body loop not appending to it
validatedTypes_NoErrors(svc) ==
    Concat(Map(Validated, RequestBodies(svc)))
    \o Concat(Map(Validated, ResponseBodies(svc)))
    \o Concat(Map(Validated, svc.rdata.ClientBodyAttributeTypes))

\* validatedTypes: every body loop appends to it
validatedTypes(svc) ==
    Concat(Map(Validated, RequestBodies(svc)))
    \o Concat(Map(Validated, ResponseBodies(svc)))
    \o Concat(Map(Validated, ErrorBodies(svc)))
    \o Concat(Map(Validated, svc.rdata.ClientBodyAttributeTypes))

\* body constructors
BodyInitSections(svc) ==
    Map(LAMBDA init : SectionTemplate("client-body-init", "clientBodyInitT", init),
        initData(svc))

ResultInitOf(name, resp) ==
    IF resp.ResultInit # Nil
    THEN <<SectionTemplate(name, "clientTypeInitT", Deref(resp.ResultInit))>>
    ELSE <<>>

\* ResultInitSections with one loop for the responses and one for the errors
ResultInitSections_ResponsesFirst(svc) ==
    Concat(Map(LAMBDA adata :
                 Concat(Map(LAMBDA resp : ResultInitOf("client-result-init", resp),
                            adata.Result.Responses)),
               svc.rdata.Endpoints))
    \o Concat(Map(LAMBDA adata :
                    Concat(Map(LAMBDA herr :
                                 ResultInitOf("client-error-result-init", herr.Response),
                               adata.Errors)),
                  svc.rdata.Endpoints))

\* response and error response to method result, per endpoint of rdata.Endpoints
ResultInitSections(svc) ==
    Concat(Map(LAMBDA adata :
                 Concat(Map(LAMBDA resp : ResultInitOf("client-result-init", resp),
                            adata.Result.Responses))
                 \o Concat(Map(LAMBDA herr :
                                 ResultInitOf("client-error-result-init", herr.Response),
                               adata.Errors)),
               svc.rdata.Endpoints))

ConvertSections(svc) ==
    Map(LAMBDA t : SectionTemplate("expanded-type-convert", "expandedTypeConvertT", t),
        svc.rdata.ExpandedTypes)

HelperSections(svc) ==
    Map(LAMBDA h : SectionTemplate("transform-helper", "transformHelperT", h),
        svc.rdata.Service.Helpers)

\* validate methods
ValidateSections(svc) ==
    Map(LAMBDA data : SectionTemplate("client-validate", "validateT", data),
        validatedTypes(svc))

ValidateExpandedSections(svc) ==
    Map(LAMBDA t : SectionTemplate("client-validate-expanded", "validateExpandedTypeT", t),
        svc.rdata.Service.ExpandedTypes)

\* clientType with the validate methods appended before the type declarations
clientType_ValidateFirst(svc, seenNames) ==
    [Path |-> <<"gen", "http", svc.Name, "client", "types.go">>,
     SectionTemplates |->
        <<Header(svc)>>
        \o ValidateSections(svc)
        \o RequestBodySections(svc)
        \o ResponseBodySections(svc)
        \o ErrorBodySections(svc)
        \o BodyAttributeSections(svc)
        \o ExpandedTypeSections(svc)
        \o BodyInitSections(svc)
        \o ResultInitSections(svc)
        \o ConvertSections(svc)
        \o HelperSections(svc)
        \o ValidateExpandedSections(svc)]

\* clientType: the file of one service; seen is received and never consulted
clientType(svc, seenNames) ==
    [Path |-> <<"gen", "http", svc.Name, "client", "types.go">>,
     SectionTemplates |->
        <<Header(svc)>>
        \o RequestBodySections(svc)
        \o ResponseBodySections(svc)
        \o ErrorBodySections(svc)
        \o BodyAttributeSections(svc)
        \o ExpandedTypeSections(svc)
        \o BodyInitSections(svc)
        \o ResultInitSections(svc)
        \o ConvertSections(svc)
        \o HelperSections(svc)
        \o ValidateSections(svc)
        \o ValidateExpandedSections(svc)]

\* expandedTypeConvertT rendering the first view only
expandedTypeConvertT_FirstView(t) ==
    Map(LAMBDA v : [Func |-> v.ToResult, Receiver |-> v.Ref,
                    Returns |-> t.ResultRef, View |-> v.View,
                    Code |-> v.ToResultCode],
        SubSeq(t.Views, 1, IF Len(t.Views) > 1 THEN 1 ELSE Len(t.Views)))

\* expandedTypeConvertT: one function per element of .Views
expandedTypeConvertT(t) ==
    Map(LAMBDA v : [Func |-> v.ToResult, Receiver |-> v.Ref,
                    Returns |-> t.ResultRef, View |-> v.View,
                    Code |-> v.ToResultCode],
        t.Views)

-----------------------------------------------------------------------------
(* The pointer rules of the values that hold primitive types *)

Contexts == {"payload", "body", "param", "header-request", "header-response", "result"}

Kinds == {"primitive", "aggregate"}

\* The pointer rules with the result fields following the payload rule
PointerPolicy_ResultAsPayload(required, hasDefault, kind, context) ==
    IF kind = "aggregate" THEN "optional"
    ELSE CASE context \in {"payload", "result"} ->
                IF ~required /\ ~hasDefault THEN "optional" ELSE "value"
           [] context = "body" -> "optional"
           [] context \in {"param", "header-request"} ->
                IF ~required THEN "optional" ELSE "value"
           [] context = "header-response" ->
                IF ~required /\ ~hasDefault THEN "optional" ELSE "value"

\* Whether a value is a pointer ("optional") or not ("value")
PointerPolicy(required, hasDefault, kind, context) ==
    IF kind = "aggregate" THEN "optional"
    ELSE CASE context = "payload" ->
                IF ~required /\ ~hasDefault THEN "optional" ELSE "value"
           [] context = "body" -> "optional"
           [] context \in {"param", "header-request"} ->
                IF ~required THEN "optional" ELSE "value"
           [] context = "result" ->
                IF ~required \/ hasDefault THEN "optional" ELSE "value"
           [] context = "header-response" ->
                IF ~required /\ ~hasDefault THEN "optional" ELSE "value"

MaxFields == 2

FieldMetadata == [required : BOOLEAN, hasDefault : BOOLEAN, kind : Kinds]

RECURSIVE FieldLists(_)
FieldLists(n) ==
    IF n = 0 THEN {<<>>}
    ELSE LET shorter == FieldLists(n - 1)
         IN  shorter \cup {Append(l, f) : l \in {q \in shorter : Len(q) = n - 1},
                                          f \in FieldMetadata}

InitPolicy ==
    /\ fields \in [Context : Contexts, Attributes : FieldLists(MaxFields)]
    /\ resolved = <<>>
    /\ root = <<>>
    /\ i = 1
    /\ fw = <<>>
    /\ seen = {}
    /\ pc = "resolve"

\* The representation of the next field of the list is resolved
ResolveField ==
    /\ pc = "resolve"
    /\ Len(resolved) < Len(fields.Attributes)
    /\ LET f == fields.Attributes[Len(resolved) + 1]
       IN  resolved' = Append(resolved,
                PointerPolicy(f.required, f.hasDefault, f.kind, fields.Context))
    /\ UNCHANGED <<fields, root, i, fw, seen, pc>>

NextPolicy == ResolveField

SpecPolicy == InitPolicy /\ [][NextPolicy]_vars

-----------------------------------------------------------------------------
(* The service data clientType reads: HTTPServices.Get(svc.Name()) *)

MaxEndpoints == 2
MaxViews == 2
MaxServices == 2
MaxCount == 1

TypeNames == {"A", "B"}

DefText == "struct"
ValidateText == "validate"

Address(ctx, e, k) == [ctx |-> ctx, e |-> e, k |-> k]

\* InitData of a request body constructor
BodyInitData(addr, name) ==
    [Addr |-> addr, Name |-> <<"New", name>>, ReturnTypeName |-> name,
     ClientArgs |-> <<>>]

\* InitData of a result constructor: the body, when there is one, is its argument
ResultInitData(addr, body) ==
    [Addr |-> addr, Name |-> <<"NewResult", addr.ctx, addr.e, addr.k>>,
     ReturnTypeName |-> "Result",
     ClientArgs |-> IF body # Nil
                    THEN <<[Name |-> "body", TypeRef |-> Deref(body).VarName]>>
                    ELSE <<>>]

\* TypeData
TypeData(addr, it) ==
    [Addr |-> addr, VarName |-> it.name,
     Def |-> IF it.def THEN DefText ELSE Empty,
     Init |-> IF it.init THEN Ptr(BodyInitData(addr, it.name)) ELSE Nil,
     ValidateDef |-> IF it.val THEN ValidateText ELSE Empty]

\* ResponseData
ResponseData(addr, it) ==
    LET body == IF it.body THEN Ptr(TypeData(addr, it)) ELSE Nil
    IN  [ClientBody |-> body,
         ResultInit |-> IF it.ri THEN Ptr(ResultInitData(addr, body)) ELSE Nil]

ViewNames == <<"default", "tiny", "extended", "full">>

\* ExpandedTypeData of the HTTP service data, with its views
ExpandedTypeData(addr, it) ==
    [Addr |-> addr, Name |-> it.name, VarName |-> it.name, Def |-> DefText,
     ResultName |-> <<"Result", it.name>>, ResultRef |-> <<"*", "Result", it.name>>,
     Views |-> [v \in 1..it.nv |->
                  [View |-> ViewNames[v], ToResult |-> <<"To", "Result", it.name>>,
                   Ref |-> <<"*", it.name, ViewNames[v]>>,
                   ToResultCode |-> <<"res", ViewNames[v]>>]]]

\* ExpandedTypeData of the service: the Validate code may be empty
ServiceExpandedTypeData(addr, it) ==
    [Addr |-> addr, VarName |-> it.name, Ref |-> <<"*", it.name>>,
     Validate |-> IF it.val THEN ValidateText ELSE Empty]

TransformFunctionData(addr, it) ==
    [Addr |-> addr, Name |-> <<"marshal", it.name>>,
     ParamTypeRef |-> it.name, ResultTypeRef |-> <<"*", it.name>>]

\* One descriptor of the service data and the place it sits at
Item(slot, e, name, def, init, val, body, ri, nv) ==
    [slot |-> slot, e |-> e, name |-> name, def |-> def, init |-> init,
     val |-> val, body |-> body, ri |-> ri, nv |-> nv]

RequestItems ==
    {Item("request", e, n, d, c, v, TRUE, FALSE, 0) :
        e \in 1..MaxEndpoints, n \in TypeNames, d \in BOOLEAN, c \in BOOLEAN, v \in BOOLEAN}

ResponseItemsOf(slot) ==
    {Item(slot, e, n, d, c, v, TRUE, r, 0) :
        e \in 1..MaxEndpoints, n \in TypeNames, d \in BOOLEAN, c \in BOOLEAN,
        v \in BOOLEAN, r \in BOOLEAN}
    \cup {Item(slot, e, "A", FALSE, FALSE, FALSE, FALSE, r, 0) :
        e \in 1..MaxEndpoints, r \in BOOLEAN}

AttributeItems ==
    {Item("attribute", 1, n, d, c, v, TRUE, FALSE, 0) :
        n \in TypeNames, d \in BOOLEAN, c \in BOOLEAN, v \in BOOLEAN}

ExpandedItems ==
    {Item("expanded", 1, n, TRUE, FALSE, FALSE, FALSE, FALSE, nv) :
        n \in TypeNames, nv \in 0..MaxViews}

HelperItems ==
    {Item("helper", 1, n, FALSE, FALSE, FALSE, FALSE, FALSE, 0) : n \in TypeNames}

ServiceExpandedItems ==
    {Item("service-expanded", 1, n, FALSE, FALSE, v, FALSE, FALSE, 0) :
        n \in TypeNames, v \in BOOLEAN}

Items ==
    RequestItems \cup ResponseItemsOf("response") \cup ResponseItemsOf("error")
    \cup AttributeItems \cup ExpandedItems \cup HelperItems \cup ServiceExpandedItems

Select(items, slot, e) == SelectSeq(items, LAMBDA it : it.slot = slot /\ it.e = e)

Indexed(F(_, _), s) == [k \in 1..Len(s) |-> F(s[k], k)]

RECURSIVE MaxE(_)
MaxE(items) ==
    IF items = <<>> THEN 1
    ELSE LET m == MaxE(Tail(items))
         IN  IF Head(items).e > m THEN Head(items).e ELSE m

EndpointName(e) == <<"endpoint", e>>

\* EndpointData number e of the service data assembled from the items
EndpointData(items, e) ==
    [Name |-> EndpointName(e),
     Payload |-> [Request |-> [ClientBody |->
        IF Select(items, "request", e) # <<>>
        THEN Ptr(TypeData(Address("request", e, 1), Head(Select(items, "request", e))))
        ELSE Nil]],
     Result |-> [Responses |->
        Indexed(LAMBDA it, k : ResponseData(Address("response", e, k), it),
                Select(items, "response", e))],
     Errors |->
        Indexed(LAMBDA it, k : [Response |-> ResponseData(Address("error", e, k), it)],
                Select(items, "error", e))]

\* The ServiceData of a service
ServiceData(items) ==
    [Endpoints |-> [e \in 1..MaxE(items) |-> EndpointData(items, e)],
     ClientBodyAttributeTypes |->
        Indexed(LAMBDA it, k : TypeData(Address("attribute", 1, k), it),
                Select(items, "attribute", 1)),
     ExpandedTypes |->
        Indexed(LAMBDA it, k : ExpandedTypeData(Address("expanded", 1, k), it),
                Select(items, "expanded", 1)),
     Service |->
        [PkgName |-> "service",
         Helpers |->
            Indexed(LAMBDA it, k : TransformFunctionData(Address("helper", 1, k), it),
                    Select(items, "helper", 1)),
         ExpandedTypes |->
            Indexed(LAMBDA it, k :
                        ServiceExpandedTypeData(Address("service-expanded", 1, k), it),
                    Select(items, "service-expanded", 1))]]

\* The ServiceExpr and its data; a dangling service lists an endpoint its data lacks
ServiceExpr(name, items, dangling) ==
    LET rdata == ServiceData(items)
    IN  [Name |-> name,
         HTTPEndpoints |->
            [e \in 1..Len(rdata.Endpoints) |-> rdata.Endpoints[e].Name]
            \o (IF dangling THEN <<EndpointName(0)>> ELSE <<>>),
         rdata |-> rdata]

ServiceName(k) == <<"svc", k>>

\* Services of at most two descriptors, of any kind and content
PairItems == {<<>>} \cup {<<a>> : a \in Items} \cup {<<a, b>> : a \in Items, b \in Items}

\* Services where every place holds the same number of complete descriptors
Full(slot, e) ==
    Item(slot, e, IF slot \in {"request", "expanded", "helper"} THEN "A" ELSE "B",
         TRUE, TRUE, TRUE, TRUE, TRUE, MaxViews)

RECURSIVE Repeat(_, _)
Repeat(x, n) == IF n = 0 THEN <<>> ELSE <<x>> \o Repeat(x, n - 1)

FullItems ==
    {Concat([e \in 1..ne |->
                <<Full("request", e)>> \o Repeat(Full("response", e), n)
                \o Repeat(Full("error", e), n)])
     \o Repeat(Full("attribute", 1), n) \o Repeat(Full("expanded", 1), n)
     \o Repeat(Full("helper", 1), n) \o Repeat(Full("service-expanded", 1), n) :
        ne \in 1..MaxEndpoints, n \in 0..MaxCount}

\* Services of the runs over several services
RunItems ==
    {<<>>} \cup {<<Item("request", 1, n, d, FALSE, v, TRUE, FALSE, 0)>> :
                    n \in TypeNames, d \in BOOLEAN, v \in BOOLEAN}

\* What one service of a run is assembled from
Shape(items, dangling) == [items |-> items, dangling |-> dangling]

RECURSIVE Runs(_)
Runs(n) ==
    IF n = 0 THEN {<<>>}
    ELSE LET shorter == Runs(n - 1)
         IN  shorter \cup
             {Append(r, Shape(its, d)) :
                 r \in {q \in shorter : Len(q) = n - 1},
                 its \in RunItems, d \in BOOLEAN}

\* The runs: one service of any of the single service shapes, or several services
RootShapes ==
    {<<Shape(its, FALSE)>> : its \in PairItems \cup FullItems}
    \cup Runs(MaxServices)

\* root.HTTPServices
HTTPServices(shapes) ==
    [k \in 1..Len(shapes) |->
        ServiceExpr(ServiceName(k), shapes[k].items, shapes[k].dangling)]

-----------------------------------------------------------------------------
(* ClientTypeFiles *)

Init ==
    /\ \E shapes \in RootShapes : root = HTTPServices(shapes)
    /\ i = 1
    /\ fw = [k \in 1..Len(root) |-> Nil]
    /\ seen = {}
    /\ pc = "loop"
    /\ fields = <<>>
    /\ resolved = <<>>

\* fw[i] = clientType(genpkg, svc, seen)
Generate ==
    /\ pc = "loop"
    /\ i <= Len(root)
    /\ ~Panics(root[i])
    /\ fw' = [fw EXCEPT ![i] = Ptr(clientType(root[i], seen))]
    /\ i' = i + 1
    /\ UNCHANGED <<root, seen, pc, fields, resolved>>

\* clientType dereferences a nil endpoint: nothing recovers, the run ends
Panic ==
    /\ pc = "loop"
    /\ i <= Len(root)
    /\ Panics(root[i])
    /\ pc' = "panic"
    /\ UNCHANGED <<root, i, fw, seen, fields, resolved>>

\* return fw
Return ==
    /\ pc = "loop"
    /\ i > Len(root)
    /\ pc' = "returned"
    /\ UNCHANGED <<root, i, fw, seen, fields, resolved>>

Next == Generate \/ Panic \/ Return

Spec == Init /\ [][Next]_vars

-----------------------------------------------------------------------------
(* Reading the files of a run *)

Produced(k) == k \in 1..Len(fw) /\ fw[k] # Nil

Sections(k) == Deref(fw[k]).SectionTemplates

TypeDeclNames ==
    {"client-request-body", "client-response-body", "client-error-body",
     "client-body-attributes", "expanded-type"}

ReferringNames ==
    {"client-body-init", "client-result-init", "client-error-result-init",
     "expanded-type-convert", "transform-helper", "client-validate",
     "client-validate-expanded"}

IsTypeDecl(s) == s.Name \in TypeDeclNames

\* The names of the types a section's code refers to
References(s) ==
    CASE s.Name = "client-body-init" -> {s.Data.ReturnTypeName}
      [] s.Name \in {"client-result-init", "client-error-result-init"} ->
            {s.Data.ClientArgs[a].TypeRef : a \in 1..Len(s.Data.ClientArgs)}
      [] s.Name = "expanded-type-convert" -> {s.Data.Name}
      [] s.Name = "transform-helper" -> {s.Data.ParamTypeRef}
      [] s.Name \in {"client-validate", "client-validate-expanded"} -> {s.Data.VarName}
      [] OTHER -> {}

\* Every body descriptor of a service, in the order the declaration loops visit them
AllBodies(svc) ==
    RequestBodies(svc) \o ResponseBodies(svc) \o ErrorBodies(svc)
    \o svc.rdata.ClientBodyAttributeTypes

\* The request, response and error bodies of the endpoints of a service
EndpointBodies(svc) == RequestBodies(svc) \o ResponseBodies(svc) \o ErrorBodies(svc)

\* The indexes of the sections of a file that carry one of the names
Indexes(k, names) == {j \in 1..Len(Sections(k)) : Sections(k)[j].Name \in names}

\* The indexes of the sections of a file with that name and that descriptor
SectionsOf(k, name, addr) ==
    {j \in Indexes(k, {name}) : Sections(k)[j].Data.Addr = addr}

-----------------------------------------------------------------------------
(* C1, C2: duplicate declarations *)

\* C1: no file holds two type declaration sections of the same type name.
C1_NoDuplicateDeclaration ==
    \A k \in 1..Len(fw) : Produced(k) =>
        \A a, b \in Indexes(k, TypeDeclNames) :
            a # b => Sections(k)[a].Data.VarName # Sections(k)[b].Data.VarName

\* C2: across the files of one run a type name is declared by one service only,
\* the first to claim it; later services skip the declaration.
C2_DeclaredOncePerRun ==
    \A k1, k2 \in 1..Len(fw) : (k1 < k2 /\ Produced(k1) /\ Produced(k2)) =>
        \A a \in Indexes(k1, TypeDeclNames), b \in Indexes(k2, TypeDeclNames) :
            Sections(k1)[a].Data.VarName # Sections(k2)[b].Data.VarName

-----------------------------------------------------------------------------
(* C3: declarations before references *)

\* A declaration of the type of that name sits before index j of file k
DeclaredBefore(k, n, j) ==
    \E d \in Indexes(k, TypeDeclNames) : d < j /\ Sections(k)[d].Data.VarName = n

\* A declaration never follows a section that refers to its type
DeclarationsFirst(k) ==
    \A d \in Indexes(k, TypeDeclNames), j \in Indexes(k, ReferringNames) :
        Sections(k)[d].Data.VarName \in References(Sections(k)[j]) => d < j

\* The type names the file of a service declares: its bodies of non-empty
\* definition and the expanded types of its HTTP data
Declarable(svc) ==
    LET bodies == AllBodies(svc)
    IN  {bodies[b].VarName : b \in {c \in 1..Len(bodies) : bodies[c].Def # Empty}}
        \cup {svc.rdata.ExpandedTypes[t].VarName :
                 t \in 1..Len(svc.rdata.ExpandedTypes)}

\* C3 as stated: declarations precede the sections that refer to their type, and
\* every referring section has a declaration of each type it refers to before it.
C3_EveryReferenceDeclared ==
    \A k \in 1..Len(fw) : Produced(k) =>
        /\ DeclarationsFirst(k)
        /\ \A j \in Indexes(k, ReferringNames) :
              \A n \in References(Sections(k)[j]) : DeclaredBefore(k, n, j)

\* C3 amended: declarations precede the sections that refer to their type, and a
\* referring section has an earlier declaration of every type it refers to that
\* is a body of non-empty definition or an expanded type of the HTTP data.
C3_DeclarableReferenceDeclared ==
    \A k \in 1..Len(fw) : Produced(k) =>
        LET declarable == Declarable(root[k])
        IN  /\ DeclarationsFirst(k)
            /\ \A j \in Indexes(k, ReferringNames) :
                  \A n \in References(Sections(k)[j]) \cap declarable :
                      DeclaredBefore(k, n, j)

\* A file where a validator has its declaration before it and a constructor of a
\* body of empty definition has none
C3_Witness ==
    \E k \in 1..Len(fw) : Produced(k) /\
        /\ \E j \in Indexes(k, {"client-validate"}) :
              DeclaredBefore(k, Sections(k)[j].Data.VarName, j)
        /\ \E j \in Indexes(k, {"client-body-init"}) :
              ~DeclaredBefore(k, Sections(k)[j].Data.ReturnTypeName, j)

-----------------------------------------------------------------------------
(* C4: the phases *)

Phase(s) ==
    CASE s.Name = "source-header" -> 0
      [] s.Name = "client-request-body" -> 1
      [] s.Name = "client-response-body" -> 2
      [] s.Name = "client-error-body" -> 3
      [] s.Name = "client-body-attributes" -> 4
      [] s.Name = "expanded-type" -> 5
      [] s.Name = "client-body-init" -> 6
      [] s.Name \in {"client-result-init", "client-error-result-init"} -> 7
      [] s.Name = "expanded-type-convert" -> 8
      [] s.Name = "transform-helper" -> 9
      [] s.Name \in {"client-validate", "client-validate-expanded"} -> 10

\* Result constructors a before b: endpoints in schema order, and within one
\* endpoint the responses before the errors
ResultInitOrdered(a, b) ==
    \/ a.Data.Addr.e < b.Data.Addr.e
    \/ /\ a.Data.Addr.e = b.Data.Addr.e
       /\ a.Name = "client-error-result-init" => b.Name = "client-error-result-init"

\* C4: one header first, then the phases in their fixed order, the result
\* constructors endpoint by endpoint with the responses of an endpoint before
\* its errors.
C4_PhaseOrder ==
    \A k \in 1..Len(fw) : Produced(k) =>
        /\ Sections(k)[1].Name = "source-header"
        /\ Indexes(k, {"source-header"}) = {1}
        /\ \A a, b \in 1..Len(Sections(k)) :
              a < b => /\ Phase(Sections(k)[a]) <= Phase(Sections(k)[b])
                       /\ Phase(Sections(k)[a]) = 7 /\ Phase(Sections(k)[b]) = 7
                            => ResultInitOrdered(Sections(k)[a], Sections(k)[b])

\* A file with sections of every phase, and result constructors of the responses
\* and errors of two endpoints
C4_Witness ==
    \E k \in 1..Len(fw) : Produced(k) /\
        /\ {Phase(Sections(k)[j]) : j \in 1..Len(Sections(k))} = 0..10
        /\ \A e \in 1..2 : \A n \in {"client-result-init", "client-error-result-init"} :
              \E j \in Indexes(k, {n}) : Sections(k)[j].Data.Addr.e = e

-----------------------------------------------------------------------------
(* C6, C10: body constructors *)

BodiesWithInit(bodies) == SelectSeq(bodies, LAMBDA b : b.Init # Nil)

BodiesWithValidate(bodies) == SelectSeq(bodies, LAMBDA b : b.ValidateDef # Empty)

Undeclared(bodies) == SelectSeq(bodies, LAMBDA b : b.Def = Empty)

HasConstructor(k, b) == SectionsOf(k, "client-body-init", b.Addr) # {}

HasValidator(k, b) == SectionsOf(k, "client-validate", b.Addr) # {}

\* C6 as stated: every body without a declaration section keeps the constructor
\* section of its constructor and the validator section of its validation.
C6_UndeclaredBodiesKeepSections ==
    \A k \in 1..Len(fw) : Produced(k) =>
        LET constructed == Undeclared(EndpointBodies(root[k]))
            bodies == Undeclared(AllBodies(root[k]))
        IN  /\ \A b \in 1..Len(constructed) :
                  constructed[b].Init # Nil => HasConstructor(k, constructed[b])
            /\ \A b \in 1..Len(bodies) :
                  bodies[b].ValidateDef # Empty => HasValidator(k, bodies[b])

\* C6 amended: a request body without a declaration section keeps the
\* constructor section of its constructor, and a body of any context without a
\* declaration section keeps the validator section of its validation.
C6_UndeclaredKeepRequestInitAndValidate ==
    \A k \in 1..Len(fw) : Produced(k) =>
        LET requests == Undeclared(RequestBodies(root[k]))
            bodies == Undeclared(AllBodies(root[k]))
        IN  /\ \A b \in 1..Len(requests) :
                  requests[b].Init # Nil => HasConstructor(k, requests[b])
            /\ \A b \in 1..Len(bodies) :
                  bodies[b].ValidateDef # Empty => HasValidator(k, bodies[b])

\* A file with the constructor and the validator of a request body that has no
\* declaration section
C6_Witness ==
    \E k \in 1..Len(fw) : Produced(k) /\
        \E b \in 1..Len(RequestBodies(root[k])) :
            LET body == RequestBodies(root[k])[b]
            IN  /\ body.Def = Empty
                /\ ~DeclaredBefore(k, body.VarName, Len(Sections(k)) + 1)
                /\ body.Init # Nil /\ HasConstructor(k, body)
                /\ body.ValidateDef # Empty /\ HasValidator(k, body)

\* The constructor sections of a file are, one for one and in order, those of
\* the given bodies
ConstructorsAre(k, bodies) ==
    LET at == Indexes(k, {"client-body-init"})
    IN  /\ Cardinality(at) = Len(bodies)
        /\ \A b \in 1..Len(bodies) :
              /\ Cardinality(SectionsOf(k, "client-body-init", bodies[b].Addr)) = 1
              /\ \A j \in SectionsOf(k, "client-body-init", bodies[b].Addr) :
                    /\ Sections(k)[j].Data = Deref(bodies[b].Init)
                    /\ Cardinality({a \in at : a < j}) = b - 1

\* C10 as stated: one constructor section for every body that carries a
\* constructor, whatever its context, in the order the declaration phase visits
\* the bodies.
C10_ConstructorPerBody ==
    \A k \in 1..Len(fw) : Produced(k) =>
        ConstructorsAre(k, BodiesWithInit(EndpointBodies(root[k])))

\* C10 amended: one constructor section for every request body that carries a
\* constructor, in endpoint order, and none for the constructor of a response
\* body, an error body or a body attribute type.
C10_ConstructorPerRequestBody ==
    \A k \in 1..Len(fw) : Produced(k) =>
        ConstructorsAre(k, BodiesWithInit(RequestBodies(root[k])))

\* A file with the constructors of the request bodies of two endpoints
C10_Witness ==
    \E k \in 1..Len(fw) : Produced(k) /\
        /\ Len(BodiesWithInit(RequestBodies(root[k]))) = 2
        /\ Cardinality(Indexes(k, {"client-body-init"})) = 2

-----------------------------------------------------------------------------
(* C7: view conversions *)

\* C7: every expanded type has one conversion section, which renders one
\* function per view, in view order, named after and returning the result type.
C7_OneConversionPerView ==
    \A k \in 1..Len(fw) : Produced(k) =>
        LET types == root[k].rdata.ExpandedTypes
            at == Indexes(k, {"expanded-type-convert"})
        IN  /\ Cardinality(at) = Len(types)
            /\ \A t \in 1..Len(types) :
                  /\ Cardinality(SectionsOf(k, "expanded-type-convert", types[t].Addr)) = 1
                  /\ \A j \in SectionsOf(k, "expanded-type-convert", types[t].Addr) :
                        LET funcs == expandedTypeConvertT(Sections(k)[j].Data)
                        IN  /\ Sections(k)[j].Source = "expandedTypeConvertT"
                            /\ Cardinality({a \in at : a < j}) = t - 1
                            /\ Len(funcs) = Len(types[t].Views)
                            /\ \A v \in 1..Len(funcs) :
                                  /\ funcs[v].View = types[t].Views[v].View
                                  /\ funcs[v].Receiver = types[t].Views[v].Ref
                                  /\ funcs[v].Func = types[t].Views[v].ToResult
                                  /\ funcs[v].Returns = types[t].ResultRef

\* A file with the conversions of an expanded type of two views
C7_Witness ==
    \E k \in 1..Len(fw) : Produced(k) /\
        \E j \in Indexes(k, {"expanded-type-convert"}) :
            /\ Len(Sections(k)[j].Data.Views) = 2
            /\ Len(expandedTypeConvertT(Sections(k)[j].Data)) = 2

-----------------------------------------------------------------------------
(* C8: validators *)

CtxRank(ctx) ==
    CASE ctx = "request" -> 1 [] ctx = "response" -> 2 [] ctx = "error" -> 3
      [] ctx = "attribute" -> 4

\* Descriptor a is visited before descriptor b by the declaration phase
VisitedBefore(a, b) ==
    \/ CtxRank(a.ctx) < CtxRank(b.ctx)
    \/ a.ctx = b.ctx /\ a.e < b.e
    \/ a.ctx = b.ctx /\ a.e = b.e /\ a.k < b.k

\* One validator section for every body with a validation, and no other, in the
\* order the declaration phase visits the bodies, all before the validators of
\* the expanded types
BodyValidators(k) ==
    LET flagged == BodiesWithValidate(AllBodies(root[k]))
        at == Indexes(k, {"client-validate"})
    IN  /\ Cardinality(at) = Len(flagged)
        /\ \A b \in 1..Len(flagged) :
              /\ Cardinality(SectionsOf(k, "client-validate", flagged[b].Addr)) = 1
              /\ \A j \in SectionsOf(k, "client-validate", flagged[b].Addr) :
                    Sections(k)[j].Data = flagged[b]
        /\ \A a, b \in at :
              a < b => VisitedBefore(Sections(k)[a].Data.Addr, Sections(k)[b].Data.Addr)
        /\ \A a \in at, b \in Indexes(k, {"client-validate-expanded"}) : a < b

\* The expanded types of a file's validators of expanded types
ExpandedValidated(k) ==
    {Sections(k)[j].Data : j \in Indexes(k, {"client-validate-expanded"})}

\* C8 as stated: one validator per body with a validation, in declaration order,
\* then one validator for each expanded type that requires validation and for no
\* other, each of them a type with an expanded type declaration section.
C8_ValidatorsOfValidatedTypes ==
    \A k \in 1..Len(fw) : Produced(k) =>
        LET types == root[k].rdata.Service.ExpandedTypes
        IN  /\ BodyValidators(k)
            /\ \A t \in 1..Len(types) :
                  types[t].Validate # Empty <=>
                      SectionsOf(k, "client-validate-expanded", types[t].Addr) # {}
            /\ \A t \in ExpandedValidated(k) :
                  \E d \in Indexes(k, {"expanded-type"}) :
                      Sections(k)[d].Data.VarName = t.VarName

\* C8 amended: one validator per body with a validation, in declaration order,
\* then one validator for every expanded type of the service data, in list
\* order, whether or not its validation code is empty and whether or not the
\* file declares an expanded type of that name.
C8_ValidatorPerServiceExpandedType ==
    \A k \in 1..Len(fw) : Produced(k) =>
        LET types == root[k].rdata.Service.ExpandedTypes
            at == Indexes(k, {"client-validate-expanded"})
        IN  /\ BodyValidators(k)
            /\ Cardinality(at) = Len(types)
            /\ \A t \in 1..Len(types) :
                  /\ Cardinality(SectionsOf(k, "client-validate-expanded", types[t].Addr)) = 1
                  /\ \A j \in SectionsOf(k, "client-validate-expanded", types[t].Addr) :
                        /\ Sections(k)[j].Data = types[t]
                        /\ Cardinality({a \in at : a < j}) = t - 1

\* A file with the validator of an error body and, after it, the validator of
\* an expanded type that has no validation code and no declaration
C8_Witness ==
    \E k \in 1..Len(fw) : Produced(k) /\
        /\ \E a \in Indexes(k, {"client-validate"}) :
              Sections(k)[a].Data.Addr.ctx = "error"
        /\ \E j \in Indexes(k, {"client-validate-expanded"}) :
              /\ Sections(k)[j].Data.Validate = Empty
              /\ ~DeclaredBefore(k, Sections(k)[j].Data.VarName, j)

-----------------------------------------------------------------------------
(* C9: failures *)

\* C9: when a run ends, the file of every service whose sections can be built
\* has been produced, whatever happened to the other services.
C9_SiblingsProduced ==
    pc \in {"returned", "panic"} =>
        \A k \in 1..Len(root) : ~Panics(root[k]) => Produced(k)

-----------------------------------------------------------------------------
(* C5: the pointer rules *)

\* The fields that are held by value
HeldByValue(f, context) ==
    /\ f.kind = "primitive"
    /\ \/ context = "payload" /\ (f.required \/ f.hasDefault)
       \/ context \in {"param", "header-request"} /\ f.required
       \/ context = "result" /\ f.required /\ ~f.hasDefault
       \/ context = "header-response" /\ (f.required \/ f.hasDefault)

Resolved(k, required, hasDefault, context, tag) ==
    (/\ fields.Context = context
     /\ fields.Attributes[k].kind = "primitive"
     /\ fields.Attributes[k].required = required
     /\ fields.Attributes[k].hasDefault = hasDefault) => resolved[k] = tag

\* C5: every field resolves to value or optional by the rule of its kind and
\* context: aggregates and body fields optional, and the four stated cases.
C5_PointerPolicy ==
    \A k \in 1..Len(resolved) :
        /\ resolved[k] \in {"value", "optional"}
        /\ resolved[k] = "value" <=> HeldByValue(fields.Attributes[k], fields.Context)
        /\ Resolved(k, TRUE, FALSE, "payload", "value")
        /\ Resolved(k, FALSE, FALSE, "payload", "optional")
        /\ Resolved(k, TRUE, TRUE, "result", "optional")
        /\ Resolved(k, FALSE, TRUE, "header-response", "value")

\* A required result field with a default has resolved to optional after an
\* aggregate has
C5_Witness ==
    /\ fields.Context = "result"
    /\ Len(resolved) = 2
    /\ fields.Attributes[1].kind = "aggregate" /\ resolved[1] = "optional"
    /\ fields.Attributes[2] = [required |-> TRUE, hasDefault |-> TRUE, kind |-> "primitive"]
    /\ resolved[2] = "optional"

=============================================================================
